---- MODULE Spec2Model ----
(***************************************************************************)
(* The OCR pipeline of app/worker/file_process_worker.py: the three Celery *)
(* tasks process_file, process_single_page_ocr and finalize_ocr_processing,*)
(* the shared failure handler handle_processing_error, the inference call  *)
(* call_ai_service, the result query get_results and the upload request    *)
(* handle_file_upload of app/services/file_service.py.                     *)
(*                                                                         *)
(* The relational store is modelled by its committed rows (status,         *)
(* error_message, total_pages, page_results); a handler's session holds    *)
(* what it has read and what it has added but not committed.  The blob     *)
(* store is written through immediately.  A handler run occupies a worker  *)
(* slot p; the broker hands a message of any registered task to an idle    *)
(* slot, and may hand over the same message more than once.                *)
(*                                                                         *)
(* Spec is the workers on a store as an upload may have left it; SpecAI is *)
(* call_ai_service over every answer of the inference service; SpecUpload  *)
(* is one upload request beside the worker that gets its message.          *)
(***************************************************************************)
EXTENDS Integers, Sequences, FiniteSets, TLC

\* ------------------------------------------------------------------ bounds
MaxDeliveries == 2
MaxPages == 2
MaxLines == 2

Procs == {1, 2}
TaskIds == {"t1"}
PageNumbers == 1..MaxPages
Texts == {"Hello", ""}

\* ------------------------------------------------------- values of the code
NoRow == "no_row"
NULL == "NULL"
NoBlob == [missing |-> TRUE]
\* File.total_pages is a nullable integer: <<>> for NULL, <<n>> for n.
NullPages == <<>>
Pages(n) == <<n>>

PENDING == "pending"
IN_PROGRESS == "in_progress"
COMPLETED == "completed"
FAILED == "failed"
PROCESSING == "processing"

\* A mutation of the enum: one that also declares PROCESSING.
TaskStatusWithProcessing == {PENDING, IN_PROGRESS, COMPLETED, FAILED, PROCESSING}
\* The members class TaskStatus declares.
TaskStatus == {PENDING, IN_PROGRESS, COMPLETED, FAILED}

\* Attribute access TaskStatus.<name>: a declared member, else AttributeError.
HasMember(name) == name \in TaskStatus

MsgFileMissing == "File metadata not found in database."
MsgUnexpected == "An unexpected error occurred: PROCESSING"
MsgStorage == "Storage access error: S3Error"
MsgPdf == "PDF processing error: PDFSyntaxError"
MsgQueue == "Task queuing error: CeleryError"
MsgS3 == "S3Error"
MsgDb == "SQLAlchemyError"

PdfType == "application/pdf"
PngType == "image/png"

\* A stored document: its declared media type and what decoding its bytes gives.
DocKinds ==
    {[file_type |-> PngType, corrupt |-> FALSE, pages |-> 1]}
    \cup {[file_type |-> PdfType, corrupt |-> FALSE, pages |-> n] : n \in {0, MaxPages}}
    \cup {[file_type |-> PdfType, corrupt |-> TRUE, pages |-> 0]}

NoDoc == [file_type |-> NULL, corrupt |-> TRUE, pages |-> 0]

\* "pdf" in file.file_type
IsPdf(ft) == ft = PdfType

\* One element of the list finalize_ocr_processing receives.
PageDicts == [page_number : PageNumbers, text : Texts]

\* The result list of a chord over pages 1..n, in header order.
HeaderResults(n) == [i \in 1..n |-> [page_number |-> i, text |-> "Hello"]]

\* The same with text on every page.
TextResults(n, text) == [i \in 1..n |-> [page_number |-> i, text |-> text]]

Reversed(s) == [i \in 1..Len(s) |-> s[Len(s) + 1 - i]]

\* The lists the broker may carry to finalize_ocr_processing: the results of
\* a chord of up to MaxPages pages, those of MaxPages pages also reversed and
\* with any text, and lists that are not 1..n: a page twice, a page missing.
ResultLists ==
    {HeaderResults(n) : n \in 0..MaxPages}
    \cup {TextResults(MaxPages, text) : text \in Texts}
    \cup {Reversed(HeaderResults(MaxPages))}
    \cup {<<pd, pd>> : pd \in {r \in PageDicts : r.page_number = 1 /\ r.text = "Hello"}}
    \cup {<<pd>> : pd \in {r \in PageDicts : r.page_number = MaxPages /\ r.text = "Hello"}}

\* sorted(ocr_pages_results, key=lambda r: r["page_number"]): stable.
RECURSIVE InsertByPage(_, _)
InsertByPage(r, s) ==
    IF s = <<>> THEN <<r>>
    ELSE IF s[Len(s)].page_number <= r.page_number THEN Append(s, r)
    ELSE Append(InsertByPage(r, SubSeq(s, 1, Len(s) - 1)), s[Len(s)])

RECURSIVE SortedByPage(_)
SortedByPage(s) ==
    IF s = <<>> THEN <<>>
    ELSE InsertByPage(s[Len(s)], SortedByPage(SubSeq(s, 1, Len(s) - 1)))

\* json.dumps({"text": page_text}) and json.loads(...).get("text", "")
JsonDumps(text) == [text |-> text]
JsonText(blob) == blob.text

\* ------------------------------------------------------------------- state
VARIABLES
    status,         \* Task.status of the committed row, NoRow when there is none
    error_message,  \* Task.error_message of the committed row
    file_row,       \* whether the File row of the task's file_id exists
    doc,            \* the document stored under File.storage_path
    total_pages,    \* File.total_pages of the committed row
    page_results,   \* committed PageResult rows of the task: how many per page number
    result_blobs,   \* result bucket: page -> content under <file.id>/page_<n>.json
    chords,         \* chords queued by process_file: [task, pages]
    run,            \* the handler run in each worker slot (see Idle)
    delivered,      \* messages handed over by the broker so far
    everProcessing, \* history: the task's committed status has been PROCESSING
    pf_returned,    \* history: a process_file run for the task has returned
    task_not_found, \* history: a process_file run found no Task row (lines 42-44)
    upload          \* the upload request of the task's document (see NoUpload)

vars == <<status, error_message, file_row, doc, total_pages, page_results,
          result_blobs, chords, run, delivered, everProcessing, pf_returned,
          task_not_found, upload>>

dbVars == <<status, error_message, total_pages, page_results>>
envVars == <<file_row, doc, upload>>

NoBlobs == [k \in PageNumbers |-> NoBlob]
NoRows == [k \in PageNumbers |-> 0]

\* A commit that leaves the rows of the session for later.
InsertedLater(rows, session) == rows

\* The table with the rows of a session (their page numbers) inserted.
RECURSIVE Inserted(_, _)
Inserted(rows, session) ==
    IF session = <<>> THEN rows
    ELSE Inserted([rows EXCEPT ![Head(session)] = @ + 1], Tail(session))

\* The number of rows of a table.
RECURSIVE CountUpTo(_, _)
CountUpTo(rows, k) == IF k = 0 THEN 0 ELSE rows[k] + CountUpTo(rows, k - 1)
NumRows(rows) == CountUpTo(rows, MaxPages)
NoSnap == [status |-> NoRow, error_message |-> NULL, total_pages |-> NullPages]

\* What a session loads of the task and its file.
Snapshot(t) ==
    [status |-> status[t], error_message |-> error_message[t],
     total_pages |-> total_pages[t]]

\* A worker slot with no handler running.  pc: position in the handler; kind:
\* the Celery task; task: its task id; results: the list finalize received
\* (sorted once loaded); idx: next index of the store_ocr_results loop;
\* session: rows added to the session, not yet committed; snap: the task and
\* file as the session in use loaded them; loaded: Task.status as the handler
\* first loaded it; err: the error string passed to handle_processing_error,
\* or the exception a page worker raises; page_number: the page number a page
\* worker was given; requests: the requests it has sent to the inference
\* service; response: what the service answered.
Idle ==
    [pc |-> "idle", kind |-> NULL, task |-> NULL, results |-> <<>>, idx |-> 1,
     session |-> <<>>, snap |-> NoSnap, loaded |-> NoRow, err |-> NULL,
     page_number |-> 0, requests |-> 0, response |-> NULL]

\* What the store holds when the messages start to arrive: no Task row under
\* the id; a Pending task whose File row is missing; a Pending task with its
\* File row and its document.
\* The upload request of a document: pc is its position in
\* handle_file_upload, enqueued whether process_file.delay (line 87) has put
\* its message on the queue.
NoUpload == [pc |-> "idle", enqueued |-> FALSE]
Accepted == [pc |-> "accepted", enqueued |-> TRUE]

Worlds ==
    {[task_row |-> FALSE, file_row |-> FALSE, doc |-> NoDoc],
     [task_row |-> TRUE, file_row |-> FALSE, doc |-> NoDoc]}
    \cup [task_row : {TRUE}, file_row : {TRUE}, doc : DocKinds]

Init ==
    /\ \E world \in Worlds :
          /\ status = [t \in TaskIds |-> IF world.task_row THEN PENDING ELSE NoRow]
          /\ file_row = [t \in TaskIds |-> world.file_row]
          /\ doc = [t \in TaskIds |-> world.doc]
          /\ upload = [t \in TaskIds |-> IF world.task_row THEN Accepted ELSE NoUpload]
    /\ error_message = [t \in TaskIds |-> NULL]
    /\ total_pages = [t \in TaskIds |-> NullPages]
    /\ page_results = [t \in TaskIds |-> NoRows]
    /\ result_blobs = [t \in TaskIds |-> NoBlobs]
    /\ chords = <<>>
    /\ run = [p \in Procs |-> Idle]
    /\ delivered = 0
    /\ everProcessing = [t \in TaskIds |-> FALSE]
    /\ pf_returned = [t \in TaskIds |-> FALSE]
    /\ task_not_found = [t \in TaskIds |-> FALSE]

\* ------------------------------------------------------------------ broker
\* The broker hands a message to worker slot p, the first idle one.  Any
\* message of a registered task may arrive, and more than once.
Deliver(p) ==
    /\ run[p].pc = "idle"
    /\ \A q \in Procs : q < p => run[q].pc # "idle"
    /\ delivered < MaxDeliveries
    /\ delivered' = delivered + 1

\* ------------------------------------------------------ leaving a handler
\* The run of task `kind` for task id t in slot p returns (its finally clause
\* closes the session).
Return(p, kind, t) ==
    /\ run' = [run EXCEPT ![p] = Idle]
    /\ pf_returned' = IF kind = "process_file"
                      THEN [pf_returned EXCEPT ![t] = TRUE]
                      ELSE pf_returned
    /\ UNCHANGED task_not_found

\* The run in slot p moves on to position next.
Goto(p, next) ==
    /\ run' = [run EXCEPT ![p].pc = next]
    /\ UNCHANGED <<pf_returned, task_not_found>>

\* Line 323: the guard of the update.
HE_Guard(snap) == snap.status # NoRow /\ snap.status # FAILED

\* What may fail in handle_processing_error before its update: nothing, the
\* rollback of the caller's session (line 319), the query for the task (line
\* 322).
HandlerFaults == {"none", "rollback", "load"}

\* An except clause calls handle_processing_error(task_id, db, error); lines
\* 319-322 roll the caller's session back and load the task in a new session.
\* Lines 319-320 stand before the try: an exception of the rollback leaves
\* the handler ("he_raised").  An SQLAlchemyError of the query is caught at
\* line 327 ("he_caught").  The handler reads none of the caller's locals: the
\* result list and the loop index are dropped.
HE_Read(p, error) ==
    /\ \E fault \in HandlerFaults :
          run' = [run EXCEPT ![p] =
                    IF fault = "none"
                    THEN [@ EXCEPT !.session = <<>>, !.results = <<>>, !.idx = 1,
                                   !.snap = Snapshot(run[p].task),
                                   !.err = error, !.pc = "he_write"]
                    ELSE [Idle EXCEPT !.kind = run[p].kind, !.task = run[p].task,
                                      !.pc = IF fault = "rollback" THEN "he_raised"
                                             ELSE "he_caught"]]
    /\ UNCHANGED <<pf_returned, task_not_found>>

\* ------------------------------------------------------------ process_file
\* The page units of a decoded document, in document order.
Units(d) == IF IsPdf(d.file_type) THEN [i \in 1..d.pages |-> i] ELSE <<1>>

\* process_file without the return of line 44: with no task it goes on to
\* line 46.
PF_LoadWithoutReturn(p, t, dbok) ==
    /\ Deliver(p)
    /\ run' = [run EXCEPT ![p] =
                 [Idle EXCEPT !.kind = "process_file", !.task = t,
                              !.snap = Snapshot(t), !.loaded = status[t],
                              !.pc = IF ~dbok THEN "pf_dberror"
                                     ELSE IF file_row[t] THEN "pf_setproc"
                                     ELSE "pf_nofile"]]
    /\ UNCHANGED <<pf_returned, task_not_found>>
    /\ UNCHANGED <<dbVars, result_blobs, chords, everProcessing>>

\* Lines 38-48: the run starts, loads the task (with none it returns at line
\* 44), then its file; dbok is whether the query for the file (line 46) goes
\* through.
PF_Load(p, t, dbok) ==
    /\ Deliver(p)
    /\ IF status[t] = NoRow
       THEN /\ run' = [run EXCEPT ![p] = Idle]
            /\ pf_returned' = [pf_returned EXCEPT ![t] = TRUE]
            /\ task_not_found' = [task_not_found EXCEPT ![t] = TRUE]
       ELSE /\ run' = [run EXCEPT ![p] =
                         [Idle EXCEPT !.kind = "process_file", !.task = t,
                                      !.snap = Snapshot(t), !.loaded = status[t],
                                      !.pc = IF ~dbok THEN "pf_dberror"
                                             ELSE IF file_row[t] THEN "pf_setproc"
                                             ELSE "pf_nofile"]]
            /\ UNCHANGED <<pf_returned, task_not_found>>
    /\ UNCHANGED <<dbVars, result_blobs, chords, everProcessing>>

\* The missing-file branch without its return at line 52: the run goes on to
\* line 54.
PF_NoFileNoReturn(p, dbok) ==
    LET t == run[p].task IN
    /\ IF dbok
       THEN /\ status' = [status EXCEPT ![t] = FAILED]
            /\ error_message' = [error_message EXCEPT ![t] = MsgFileMissing]
            /\ Goto(p, "pf_setproc")
       ELSE /\ Goto(p, "pf_dberror")
            /\ UNCHANGED <<status, error_message>>
    /\ UNCHANGED <<total_pages, page_results, result_blobs, chords, everProcessing,
                   delivered>>

\* Lines 49-52: the file row is missing; dbok is whether the commit goes
\* through.
PF_NoFile(p, dbok) ==
    LET t == run[p].task IN
    /\ IF dbok
       THEN /\ status' = [status EXCEPT ![t] = FAILED]
            /\ error_message' = [error_message EXCEPT ![t] = MsgFileMissing]
            /\ Return(p, "process_file", t)
       ELSE /\ Goto(p, "pf_dberror")
            /\ UNCHANGED <<status, error_message>>
    /\ UNCHANGED <<total_pages, page_results, result_blobs, chords, everProcessing,
                   delivered>>

\* Lines 83-88: except SQLAlchemyError: db.rollback(); then the finally clause.
PF_DbError(p) ==
    /\ Return(p, "process_file", run[p].task)
    /\ UNCHANGED <<dbVars, result_blobs, chords, everProcessing, delivered>>

\* Lines 54-55: task.status = TaskStatus.PROCESSING; db.commit(); dbok is
\* whether the commit goes through.
PF_SetProcessing(p, dbok) ==
    LET t == run[p].task IN
    /\ IF ~HasMember(PROCESSING)
       THEN /\ HE_Read(p, MsgUnexpected)
            /\ UNCHANGED <<status, everProcessing>>
       ELSE IF dbok
       THEN /\ status' = [status EXCEPT ![t] = PROCESSING]
            /\ everProcessing' = [everProcessing EXCEPT ![t] = TRUE]
            /\ Goto(p, "pf_download")
       ELSE /\ Goto(p, "pf_dberror")
            /\ UNCHANGED <<status, everProcessing>>
    /\ UNCHANGED <<error_message, total_pages, page_results, result_blobs, chords,
                   delivered>>

\* Line 57: download_file_from_minio; s3ok is whether the store answers.
PF_Download(p, s3ok) ==
    /\ IF s3ok THEN Goto(p, "pf_split") ELSE HE_Read(p, MsgStorage)
    /\ UNCHANGED <<dbVars, result_blobs, chords, everProcessing, delivered>>

\* Lines 61-62: convert_from_bytes raises on bytes that do not decode.
PF_Split(p) ==
    LET d == doc[run[p].task] IN
    /\ IF IsPdf(d.file_type) /\ d.corrupt
       THEN HE_Read(p, MsgPdf)
       ELSE Goto(p, "pf_dispatch")
    /\ UNCHANGED <<dbVars, result_blobs, chords, everProcessing, delivered>>

\* Lines 59-81: chord(header, callback).apply_async(); qok is whether the
\* broker accepts it.
PF_Dispatch(p, qok) ==
    LET t == run[p].task IN
    /\ IF qok
       THEN /\ chords' = Append(chords, [task |-> t, pages |-> Units(doc[t])])
            /\ Return(p, "process_file", t)
       ELSE HE_Read(p, MsgQueue) /\ UNCHANGED chords
    /\ UNCHANGED <<dbVars, result_blobs, everProcessing, delivered>>

PFpcs == {"idle", "pf_nofile", "pf_setproc", "pf_download", "pf_split", "pf_dispatch",
          "pf_dberror"}

\* One step of a process_file run in slot p: its start for task id t, or the
\* step at its position.
process_file(p) ==
    /\ run[p].pc \in PFpcs
    /\ IF run[p].pc = "idle"
       THEN \E t \in TaskIds, dbok \in BOOLEAN : PF_Load(p, t, dbok)
       ELSE IF run[p].pc = "pf_nofile" THEN \E dbok \in BOOLEAN : PF_NoFile(p, dbok)
       ELSE IF run[p].pc = "pf_dberror" THEN PF_DbError(p)
       ELSE IF run[p].pc = "pf_setproc"
       THEN \E dbok \in BOOLEAN : PF_SetProcessing(p, dbok)
       ELSE IF run[p].pc = "pf_download" THEN \E s3ok \in BOOLEAN : PF_Download(p, s3ok)
       ELSE IF run[p].pc = "pf_split" THEN PF_Split(p)
       ELSE \E qok \in BOOLEAN : PF_Dispatch(p, qok)
    /\ UNCHANGED envVars

\* ------------------------------------------------- handle_processing_error
HEpcs == {"he_write", "he_raised", "he_caught"}

\* Lines 323-326: mark the task Failed under the guard; dbok is whether the
\* commit goes through (if not, lines 327-332 roll the new session back).
HE_Write(p, dbok) ==
    LET t == run[p].task IN
    IF HE_Guard(run[p].snap) /\ dbok
    THEN /\ status' = [status EXCEPT ![t] = FAILED]
         /\ error_message' = [error_message EXCEPT ![t] = run[p].err]
    ELSE UNCHANGED <<status, error_message>>

\* Lines 323-339: the update, or the except clause of a failed query, or the
\* exception of line 319 on its way out; then the caller's finally clause and
\* the end of the run.
handle_processing_error(p) ==
    /\ run[p].pc \in HEpcs
    /\ IF run[p].pc = "he_write"
       THEN \E dbok \in BOOLEAN : HE_Write(p, dbok)
       ELSE UNCHANGED <<status, error_message>>
    /\ Return(p, run[p].kind, run[p].task)
    /\ UNCHANGED <<total_pages, page_results, envVars, result_blobs, chords,
                   delivered, everProcessing>>

\* -------------------------------------------------- finalize_ocr_processing
\* Lines 143-163: the run starts, loads the task and its file, sorts the results.
FN_Load(p, t, ocr_pages_results) ==
    LET sorted_results == SortedByPage(ocr_pages_results) IN
    /\ Deliver(p)
    /\ IF status[t] = NoRow \/ ~file_row[t]
       THEN Return(p, "finalize_ocr_processing", t)
       ELSE /\ run' = [run EXCEPT ![p] =
                         [Idle EXCEPT !.kind = "finalize_ocr_processing", !.task = t,
                                      !.snap = Snapshot(t), !.loaded = status[t],
                                      !.results = sorted_results,
                                      !.pc = IF sorted_results = <<>>
                                             THEN "fn_complete" ELSE "fn_store"]]
            /\ UNCHANGED <<pf_returned, task_not_found>>
    /\ UNCHANGED <<dbVars, result_blobs>>

\* What a turn of the loop of store_ocr_results may raise: nothing, the
\* S3Error of a store that does not answer, the MemoryError of json.dumps
\* (line 287) or of the upload on a text too large for the worker.
StoreRaises == {NULL, "S3Error", "MemoryError"}

\* Line 170: str(e).  A MemoryError is raised without arguments: its str is
\* the empty string.
Str(e) == IF e = "MemoryError" THEN "" ELSE MsgS3

\* Lines 283-299, one turn of the loop of store_ocr_results: put the blob,
\* add the PageResult to the session; raised is what the turn raises.
store_ocr_results(p, raised) ==
    LET t == run[p].task
        page_data == run[p].results[run[p].idx]
    IN
    /\ IF raised = NULL
       THEN /\ result_blobs' = [result_blobs EXCEPT
                                  ![t][page_data.page_number] = JsonDumps(page_data.text)]
            /\ run' = [run EXCEPT ![p].session = Append(@, page_data.page_number),
                                  ![p].idx = @ + 1,
                                  ![p].pc = IF run[p].idx = Len(run[p].results)
                                            THEN "fn_complete" ELSE "fn_store"]
            /\ UNCHANGED <<pf_returned, task_not_found>>
       ELSE /\ HE_Read(p, Str(raised))
            /\ UNCHANGED result_blobs
    /\ UNCHANGED <<dbVars, delivered>>

\* Lines 308-310: file.total_pages, task.status, db.commit().  The commit
\* inserts the session's rows; a column set to the value the session loaded
\* is not written.  dbok is whether the commit goes through.
update_task_to_completed(p, dbok) ==
    LET t == run[p].task
        n == Len(run[p].results)
    IN
    /\ IF dbok
       THEN /\ page_results' = [page_results EXCEPT ![t] = Inserted(@, run[p].session)]
            /\ total_pages' = IF run[p].snap.total_pages = Pages(n) THEN total_pages
                              ELSE [total_pages EXCEPT ![t] = Pages(n)]
            /\ status' = IF run[p].snap.status = COMPLETED THEN status
                         ELSE [status EXCEPT ![t] = COMPLETED]
            /\ Return(p, "finalize_ocr_processing", t)
       ELSE /\ HE_Read(p, MsgDb)
            /\ UNCHANGED <<page_results, total_pages, status>>
    /\ UNCHANGED <<error_message, result_blobs, delivered>>

\* One step of a finalize_ocr_processing run in slot p: its start with a
\* result list for task id t, or the step at its position.
finalize_ocr_processing(p) ==
    /\ run[p].pc \in {"idle", "fn_store", "fn_complete"}
    /\ IF run[p].pc = "idle"
       THEN \E t \in TaskIds, ocr_pages_results \in ResultLists :
               FN_Load(p, t, ocr_pages_results)
       ELSE IF run[p].pc = "fn_store"
       THEN \E raised \in StoreRaises : store_ocr_results(p, raised)
       ELSE \E dbok \in BOOLEAN : update_task_to_completed(p, dbok)
    /\ UNCHANGED <<envVars, chords, everProcessing>>

\* -------------------------------------------------- process_single_page_ocr
\* A string of the service, as the sequence of its characters.
LineBreak == <<"\n">>
LineTexts == {<<>>, <<"a">>, <<"b">>}

\* An item of a layout: item.get("type"), item.get("text", "").
Items == [type : {"textline", "figure"}, text : LineTexts]

\* The layouts of at most MaxLines items.
Layouts == UNION {[1..n -> Items] : n \in 0..MaxLines}

\* An entry of result: a dict with its layout, or something that is no dict.
NotADict == [is_dict |-> FALSE, layout |-> <<>>]
Entries == {[is_dict |-> TRUE, layout |-> l] : l \in Layouts} \cup {NotADict}

\* The entries that may follow the first one.
LaterEntries == {NotADict, [is_dict |-> TRUE,
                            layout |-> <<[type |-> "textline", text |-> <<"b">>]>>]}

\* The exchange without a body: the request failed, or the body is no JSON.
NoBody(transport) ==
    [transport |-> transport, ok_status |-> FALSE, error_code |-> NULL,
     error_message |-> NULL, result |-> <<>>]

\* What the inference service answers to one request: whether the HTTP status
\* is a success, and what result.get gives for error_code, error_message and
\* result (NULL when the key is absent or null).
Responses ==
    [transport : {"ok"}, ok_status : BOOLEAN, error_code : {NULL, "E1"},
     error_message : {NULL, "", "boom"},
     result : {<<>>} \cup {<<e>> : e \in Entries}
              \cup {<<e, f>> : e \in Entries, f \in LaterEntries}]
    \cup {NoBody("error"), NoBody("not_json")}

\* A body of one result entry with the given layout, under a success status.
OkBody(layout) ==
    [transport |-> "ok", ok_status |-> TRUE, error_code |-> NULL,
     error_message |-> NULL, result |-> <<[is_dict |-> TRUE, layout |-> layout]>>]

\* The answers the page workers of the pipeline get.
SampleResponses ==
    {NoBody("error"),
     [OkBody(<<>>) EXCEPT !.error_message = "boom"],
     [OkBody(<<>>) EXCEPT !.result = <<>>],
     OkBody(<<[type |-> "textline", text |-> <<"a">>]>>)}

\* Truth value of what result.get gave.
Truthy(v) == v # NULL /\ v # ""

\* The error test that trusts a success status.
AI_IsErrorByStatus(response) ==
    ~response.ok_status /\ (Truthy(response.error_code) \/ Truthy(response.error_message))

\* Line 210: if error_code or error_message.
AI_IsError(response) ==
    Truthy(response.error_code) \/ Truthy(response.error_message)

\* The texts of the items whose text is not empty, whatever their type.
RECURSIVE TextLinesOfAnyType(_)
TextLinesOfAnyType(layout) ==
    IF layout = <<>> THEN <<>>
    ELSE IF Head(layout).text # <<>>
    THEN <<Head(layout).text>> \o TextLinesOfAnyType(Tail(layout))
    ELSE TextLinesOfAnyType(Tail(layout))

\* Lines 247-252: the texts of the items of type textline whose text is not
\* empty, in the order of the layout.
RECURSIVE TextLines(_)
TextLines(layout) ==
    IF layout = <<>> THEN <<>>
    ELSE IF Head(layout).type = "textline" /\ Head(layout).text # <<>>
    THEN <<Head(layout).text>> \o TextLines(Tail(layout))
    ELSE TextLines(Tail(layout))

\* Line 254: "\n".join(texts).
RECURSIVE Join(_)
Join(texts) ==
    IF texts = <<>> THEN <<>>
    ELSE IF Len(texts) = 1 THEN Head(texts)
    ELSE Head(texts) \o LineBreak \o Join(Tail(texts))

\* Lines 218-254: the text of a body that carries no error.
AI_Text(response) ==
    LET ocr_results_list == response.result IN
    IF ocr_results_list = <<>> THEN <<>>
    ELSE LET first_result == ocr_results_list[1] IN
         IF ~first_result.is_dict THEN <<>>
         ELSE IF first_result.layout = <<>> THEN <<>>
         ELSE Join(TextLines(first_result.layout))

\* call_ai_service that sends the request again after a transport error.
call_ai_service_retrying(response) ==
    IF response.transport = "error"
    THEN [requests |-> 2, raised |-> "RequestException", text |-> <<>>]
    ELSE IF response.transport = "not_json"
    THEN [requests |-> 1, raised |-> "JSONDecodeError", text |-> <<>>]
    ELSE IF AI_IsError(response)
    THEN [requests |-> 1, raised |-> "RuntimeError", text |-> <<>>]
    ELSE [requests |-> 1, raised |-> NULL, text |-> AI_Text(response)]

\* Lines 188-272: one requests.post; a transport error is raised again
\* (262-264), and so is a body that is no JSON (204, 265-270); an error
\* payload raises RuntimeError (208-216); else the text of the body.  The
\* status of the response is not looked at.
call_ai_service(response) ==
    IF response.transport = "error"
    THEN [requests |-> 1, raised |-> "RequestException", text |-> <<>>]
    ELSE IF response.transport = "not_json"
    THEN [requests |-> 1, raised |-> "JSONDecodeError", text |-> <<>>]
    ELSE IF AI_IsError(response)
    THEN [requests |-> 1, raised |-> "RuntimeError", text |-> <<>>]
    ELSE [requests |-> 1, raised |-> NULL, text |-> AI_Text(response)]

\* Lines 128-135: the run starts with the page number of its signature,
\* calls call_ai_service, and has its dict to return or its exception.
PW_Call(p, page_number, response) ==
    LET answer == call_ai_service(response) IN
    /\ Deliver(p)
    /\ run' = [run EXCEPT ![p] =
                  [Idle EXCEPT !.kind = "process_single_page_ocr",
                               !.pc = "pw_return",
                               !.page_number = page_number,
                               !.response = response,
                               !.requests = answer.requests,
                               !.err = answer.raised,
                               !.results =
                                   IF answer.raised # NULL THEN <<>>
                                   ELSE <<[page_number |-> page_number,
                                           text |-> answer.text]>>]]

\* One step of a process_single_page_ocr run in slot p, the service
\* answering with one of responses: its start and call, or its return to
\* Celery.  It has no session and no store client.
PW_Step(p, responses) ==
    /\ run[p].pc \in {"idle", "pw_return"}
    /\ IF run[p].pc = "idle"
       THEN \E page_number \in PageNumbers, response \in responses :
               PW_Call(p, page_number, response)
       ELSE run' = [run EXCEPT ![p] = Idle] /\ UNCHANGED delivered
    /\ UNCHANGED <<dbVars, envVars, result_blobs, chords, everProcessing, pf_returned,
                   task_not_found>>

process_single_page_ocr(p) == PW_Step(p, SampleResponses)

\* call_ai_service on its own, in the first worker slot, over every answer of
\* the service.
call_ai_service_alone ==
    \E p \in Procs : (\A q \in Procs : p <= q) /\ PW_Step(p, Responses)

\* ------------------------------------------------------- handle_file_upload
\* What may happen at lines 76-87: nothing, an SQLAlchemyError of an add, a
\* CeleryError of process_file.delay.
EnqueueOutcomes == {"ok", "db_error", "celery_error"}

\* What may happen at lines 89-90: nothing, an SQLAlchemyError of db.commit(),
\* one of db.refresh(saved_task).
CommitOutcomes == {"ok", "commit_fails", "refresh_fails"}

\* The upload of task id t moves on to position next.
U_Goto(t, next) == upload' = [upload EXCEPT ![t].pc = next]

\* Lines 49-72: the document d goes to the file bucket; s3ok is whether the
\* store takes it.
U_Store(t, d, s3ok) ==
    /\ IF s3ok
       THEN doc' = [doc EXCEPT ![t] = d] /\ U_Goto(t, "stored")
       ELSE UNCHANGED doc /\ U_Goto(t, "refused")
    /\ UNCHANGED <<status, file_row>>

\* Lines 76-87: the File and the Task are added to the session, then
\* process_file.delay puts the message on the queue.
U_Enqueue(t, outcome) ==
    /\ upload' = [upload EXCEPT ![t] =
                    IF outcome = "ok" THEN [pc |-> "enqueued", enqueued |-> TRUE]
                    ELSE [pc |-> "compensate", enqueued |-> FALSE]]
    /\ UNCHANGED <<status, file_row, doc>>

\* Lines 89-90: db.commit() makes the two rows visible; db.refresh reads the
\* task again.
U_Commit(t, outcome) ==
    /\ IF outcome = "commit_fails"
       THEN UNCHANGED <<status, file_row>>
       ELSE /\ status' = [status EXCEPT ![t] = PENDING]
            /\ file_row' = [file_row EXCEPT ![t] = TRUE]
    /\ U_Goto(t, IF outcome = "ok" THEN "accepted" ELSE "compensate")
    /\ UNCHANGED doc

\* Lines 92-113, each except clause: db.rollback() drops what the session has
\* not committed, remove_object removes the document (s3ok: the store
\* answers), and the request fails.
U_Compensate(t, s3ok) ==
    /\ doc' = IF s3ok THEN [doc EXCEPT ![t] = NoDoc] ELSE doc
    /\ U_Goto(t, "failed")
    /\ UNCHANGED <<status, file_row>>

Upcs == {"idle", "stored", "enqueued", "compensate"}

\* One step of the upload request of task id t.
handle_file_upload(t) ==
    /\ upload[t].pc \in Upcs
    /\ IF upload[t].pc = "idle"
       THEN \E d \in DocKinds, s3ok \in BOOLEAN : U_Store(t, d, s3ok)
       ELSE IF upload[t].pc = "stored"
       THEN \E outcome \in EnqueueOutcomes : U_Enqueue(t, outcome)
       ELSE IF upload[t].pc = "enqueued"
       THEN \E outcome \in CommitOutcomes : U_Commit(t, outcome)
       ELSE \E s3ok \in BOOLEAN : U_Compensate(t, s3ok)
    /\ UNCHANGED <<error_message, total_pages, page_results, result_blobs, chords,
                   run, delivered, everProcessing, pf_returned, task_not_found>>

\* A step of a process_file run in slot p, the broker holding the message of
\* an upload.
process_uploaded_file(p) ==
    /\ run[p].pc = "idle" => \E t \in TaskIds : upload[t].enqueued
    /\ process_file(p)

\* -------------------------------------------------------------- get_results
\* sorted(file.page_results, key=lambda p: p.page_number): the page numbers of
\* the rows, ascending, those up to k.
RECURSIVE SortedPages(_, _)
SortedPages(rows, k) ==
    IF k = 0 THEN <<>>
    ELSE SortedPages(rows, k - 1) \o [i \in 1..rows[k] |-> k]

\* Lines 171-184: each row with the text of its blob.
ReadPages(t, pages) ==
    [i \in 1..Len(pages) |->
        [page_number |-> pages[i], text |-> JsonText(result_blobs[t][pages[i]])]]

\* get_results(file_id) for the file of task t, lines 141-204.  Line 150
\* reads TaskStatus.PROCESSING; FileResultResponse.total_pages is an int, so
\* building the response of line 151 with total_pages None is refused.
GetResults(t) ==
    LET sorted_pages == SortedPages(page_results[t], MaxPages) IN
    IF ~file_row[t] \/ status[t] = NoRow
    THEN [raised |-> "FileServiceError 404", status |-> NULL, results |-> <<>>]
    ELSE IF ~HasMember(PROCESSING)
    THEN [raised |-> "AttributeError", status |-> NULL, results |-> <<>>]
    ELSE IF status[t] \in {PENDING, PROCESSING}
    THEN IF total_pages[t] = NullPages
         THEN [raised |-> "ValidationError", status |-> NULL, results |-> <<>>]
         ELSE [raised |-> NULL, status |-> status[t], results |-> <<>>]
    ELSE IF status[t] = FAILED
    THEN [raised |-> "FileServiceError 500", status |-> NULL, results |-> <<>>]
    ELSE IF \E i \in 1..Len(sorted_pages) : result_blobs[t][sorted_pages[i]] = NoBlob
    THEN [raised |-> "FileServiceError 500", status |-> NULL, results |-> <<>>]
    ELSE [raised |-> NULL, status |-> status[t],
          results |-> ReadPages(t, sorted_pages)]

\* ------------------------------------------------------------ properties
Terminal(s) == s \in {COMPLETED, FAILED}

\* Pending, then Processing, then a terminal status.
Rank(s) ==
    IF Terminal(s) THEN 2 ELSE IF s \in {PROCESSING, IN_PROGRESS} THEN 1 ELSE 0

Quiescent == \A p \in Procs : run[p].pc = "idle"

\* The document decodes into at least one page unit.
Decodable(d) == d.file_type # NULL /\ ~(IsPdf(d.file_type) /\ d.corrupt)
HasUnits(d) == Decodable(d) /\ Len(Units(d)) >= 1

\* A chord has been queued for the task.
Dispatched(t) == \E i \in 1..Len(chords) : chords[i].task = t

\* process_file has run to its end on the task, with its Task and File rows there.
Processed(t) == pf_returned[t] /\ status[t] # NoRow /\ file_row[t]

PageNumbersOf(results) == [i \in 1..Len(results) |-> results[i].page_number]

\* C1: once process_file has returned for a task whose document has N >= 1
\* page units and nothing of the task is running or queued any more, the task
\* is Completed with N PageResult rows, total_pages = N, and get_results
\* returns pages 1..N in order.
C1_PipelineCompletes ==
    \A t \in TaskIds :
        (Processed(t) /\ HasUnits(doc[t]) /\ Quiescent)
        => LET n == Len(Units(doc[t])) IN
           \/ Dispatched(t)
           \/ /\ status[t] = COMPLETED
              /\ NumRows(page_results[t]) = n
              /\ total_pages[t] = Pages(n)
              /\ PageNumbersOf(GetResults(t).results) = [i \in 1..n |-> i]

\* C3: a Failed task has no PageResult row and a Completed task has exactly
\* total_pages of them.
C3_TerminalRowsAllOrNothing ==
    \A t \in TaskIds :
        /\ status[t] = FAILED => NumRows(page_results[t]) = 0
        /\ status[t] = COMPLETED => total_pages[t] = Pages(NumRows(page_results[t]))

\* C4: the status of a task never moves back: not from a terminal status to
\* Pending or Processing, nor from Processing to Pending.
C4_StatusMovesForward ==
    [][\A t \in TaskIds : Rank(status'[t]) >= Rank(status[t])]_vars

\* C4 witness: a process_file run that loaded a task already Completed or
\* Failed has executed lines 54-55.
C4_Witness ==
    \E p \in Procs :
        /\ run[p].kind = "process_file"
        /\ Terminal(run[p].loaded)
        /\ run[p].pc \notin {"idle", "pf_nofile", "pf_setproc"}

\* The step is slot p's: only the handler running in a slot changes it, and
\* each step of a started handler does.
StepOf(p) == run'[p] # run[p]

\* The step is one of a failure-marking operation by slot p on a task that
\* the operation found Completed or Failed.
MarksFailureOnTerminal(p) ==
    /\ run[p].pc \in {"he_write", "pf_nofile"}
    /\ Terminal(run[p].snap.status)
    /\ StepOf(p)

\* C5: a failure-marking operation (handle_processing_error, the
\* missing-file branch of process_file) leaves a task it finds Completed or
\* Failed as it is, status and error_message.
C5_TerminalSticky ==
    [][\A p \in Procs :
          MarksFailureOnTerminal(p)
          => /\ status'[run[p].task] = status[run[p].task]
             /\ error_message'[run[p].task] = error_message[run[p].task]]_vars

\* C6: a finalize_ocr_processing run that loaded a task already Completed or
\* Failed writes nothing: rows, total_pages, status and error_message stay.
C6_FinalizeIdempotent ==
    [][\A p \in Procs :
          (/\ run[p].pc \in {"fn_store", "fn_complete"}
           /\ Terminal(run[p].loaded)
           /\ StepOf(p))
          => UNCHANGED dbVars]_vars

\* C8: a process_file run that is past lines 54-55 has committed Processing
\* for its task.
C8_ProcessingCommittedFirst ==
    \A p \in Procs :
        (run[p].kind = "process_file" /\ run[p].pc \notin {"idle", "pf_nofile", "pf_setproc"})
        => everProcessing[run[p].task]

\* C9: after process_file has returned for a task whose PDF does not decode,
\* error_message tells of the decode failure and no chord was queued.
C9_CorruptPdfIsDecodeFailure ==
    \A t \in TaskIds :
        (Processed(t) /\ IsPdf(doc[t].file_type) /\ doc[t].corrupt)
        => /\ status[t] = FAILED => error_message[t] = MsgPdf
           /\ ~Dispatched(t)

\* C10: for a task whose PDF decodes to zero pages nothing is queued, and the
\* task is never Completed with total_pages = 0.
C10_ZeroPagesIsFailure ==
    \A t \in TaskIds :
        (file_row[t] /\ Decodable(doc[t]) /\ Len(Units(doc[t])) = 0)
        => /\ ~Dispatched(t)
           /\ ~(status[t] = COMPLETED /\ total_pages[t] = Pages(0))

\* The step ends a run of slot p that met a failure after it had loaded its
\* task: the run leaves an except clause (lines 83-121, 168-170).
LeavesExceptClause(p) ==
    /\ run[p].pc \in {"pf_dberror", "he_write"}
    /\ StepOf(p)

\* C11: a process_file or finalize_ocr_processing run that met a failure
\* after loading its task leaves the task in a terminal status, not Pending
\* or Processing.
C11_FailuresAreTerminal ==
    [][\A p \in Procs :
          LeavesExceptClause(p) => Terminal(status'[run[p].task])]_vars

\* C12: whenever a task is visibly Completed, File.total_pages is set and at
\* least that many PageResult rows of the task are visible: the rows never
\* come after the status.
C12_CompletedOnlyWithRows ==
    \A t \in TaskIds :
        status[t] = COMPLETED
        => /\ total_pages[t] # NullPages
           /\ NumRows(page_results[t]) >= total_pages[t][1]

\* C12 witness: a task Completed by a finalize run of MaxPages pages, the
\* rows all there.
C12_Witness ==
    \E t \in TaskIds :
        /\ status[t] = COMPLETED
        /\ total_pages[t] = Pages(MaxPages)
        /\ NumRows(page_results[t]) = MaxPages

\* C13: a process_file run whose task has no File row is only ever in the
\* missing-file branch (or the except clause of a database error); the step
\* that leaves the branch with its commit done marks the task Failed with
\* the missing-metadata message and ends the run; no step of the run sets
\* Processing or queues a chord.
C13_MissingFileFailsAndStops ==
    [][\A p \in Procs :
          /\ (run'[p].kind = "process_file" /\ ~file_row[run'[p].task])
             => run'[p].pc \in {"pf_nofile", "pf_dberror"}
          /\ (run[p].kind = "process_file" /\ ~file_row[run[p].task] /\ StepOf(p))
             => /\ run'[p].pc \in {"idle", "pf_dberror"}
                /\ UNCHANGED <<chords, everProcessing>>
                /\ (run[p].pc = "pf_nofile" /\ run'[p].pc = "idle")
                   => /\ status'[run[p].task] = FAILED
                      /\ error_message'[run[p].task] = MsgFileMissing]_vars

\* C13 witness: process_file has returned for a task without File row and
\* the task is Failed with the missing-metadata message.
C13_Witness ==
    \E t \in TaskIds :
        /\ pf_returned[t]
        /\ ~file_row[t]
        /\ status[t] = FAILED
        /\ error_message[t] = MsgFileMissing

\* The page numbers of a sorted result list are 1..N, no gap, no duplicate.
ExactlyOneToN(results) == PageNumbersOf(results) = [i \in 1..Len(results) |-> i]

\* C14: a finalize_ocr_processing run whose sorted list is not exactly 1..N
\* persists no PageResult row and does not set the task Completed.
C14_InconsistentListRejected ==
    [][\A p \in Procs :
          (/\ run[p].kind = "finalize_ocr_processing"
           /\ ~ExactlyOneToN(run[p].results)
           /\ StepOf(p))
          => /\ page_results'[run[p].task] = page_results[run[p].task]
             /\ status'[run[p].task] \in {status[run[p].task], FAILED}]_vars

\* C15: File.total_pages changes only from null, to the number of PageResult
\* rows of the task, and is null whenever the task is Failed.
C15_TotalPagesSetOnce ==
    [][\A t \in TaskIds :
          /\ total_pages'[t] # total_pages[t]
             => /\ total_pages[t] = NullPages
                /\ total_pages'[t] = Pages(NumRows(page_results'[t]))
          /\ status'[t] = FAILED => total_pages'[t] = NullPages]_vars

\* The result objects of pages 1..Len(results) are those of this list.
BlobsAreThoseOf(t, results) ==
    \A k \in 1..Len(results) : result_blobs[t][k] = JsonDumps(results[k].text)

\* C16: when the only two invocations there have been are two
\* finalize_ocr_processing runs for the same task, both with pages 1..N and
\* both through store_ocr_results, the result store is as one of their serial
\* orders leaves it: every page holds the text of the same run.
C16_ConcurrentRunsSerialize ==
    \A p, q \in Procs :
        (/\ p # q
         /\ delivered = 2
         /\ run[p].pc = "fn_complete" /\ run[q].pc = "fn_complete"
         /\ run[p].task = run[q].task
         /\ ExactlyOneToN(run[p].results) /\ ExactlyOneToN(run[q].results)
         /\ Len(run[p].results) = Len(run[q].results))
        => \/ BlobsAreThoseOf(run[p].task, run[p].results)
           \/ BlobsAreThoseOf(run[p].task, run[q].results)

Ascending(results) ==
    \A i, j \in 1..Len(results) :
        i < j => results[i].page_number <= results[j].page_number

\* C17: for a task with its File row, get_results answers a Pending or
\* Processing task with its status and an empty list, gives no page text for
\* a Failed task, and gives page texts only for a Completed task, in
\* ascending page order.
C17_ResultsByStatus ==
    \A t \in TaskIds :
        (file_row[t] /\ status[t] # NoRow)
        => LET r == GetResults(t) IN
           /\ status[t] \in {PENDING, PROCESSING}
              => r.raised = NULL /\ r.results = <<>> /\ r.status = status[t]
           /\ status[t] = FAILED => r.results = <<>>
           /\ r.results # <<>> => status[t] = COMPLETED /\ Ascending(r.results)

\* C18: when a finalize_ocr_processing run with pages 1..N, the only
\* invocation there has been, commits Completed, get_results gives back the
\* list it stored: every page with the text written for it.
C18_TextRoundTrip ==
    [][\A p \in Procs, t \in TaskIds :
          (/\ run[p].pc = "fn_complete"
           /\ run[p].task = t
           /\ StepOf(p)
           /\ delivered = 1
           /\ run[p].results # <<>>
           /\ ExactlyOneToN(run[p].results)
           /\ status'[t] = COMPLETED)
          => /\ GetResults(t)'.raised = NULL
             /\ GetResults(t)'.results = run[p].results]_vars

\* The step ends a process_file run of slot p for task t that had its File
\* row and a document that decodes, and that no collaborator failed: not the
\* database, not the document store, not the broker.
ReturnsUnhindered(p, t) ==
    /\ run[p].kind = "process_file"
    /\ run[p].task = t
    /\ StepOf(p)
    /\ run'[p].pc = "idle"
    /\ file_row[t]
    /\ Decodable(doc[t])
    /\ run[p].pc # "pf_dberror"
    /\ ~(run[p].pc = "he_write" /\ run[p].err \in {MsgStorage, MsgQueue})

\* C19: a process_file run that no collaborator failed queues, for a
\* document of N page units, one page invocation per unit, numbered 1..N in
\* document order; for a document that is not a PDF, one, numbered 1.
C19_OneInvocationPerUnit ==
    [][\A p \in Procs, t \in TaskIds :
          ReturnsUnhindered(p, t)
          => LET n == IF IsPdf(doc[t].file_type) THEN doc[t].pages ELSE 1 IN
             chords' = Append(chords, [task |-> t, pages |-> [i \in 1..n |-> i]])]_vars

\* C20: a process_single_page_ocr run has sent exactly one request when it
\* returns or raises, what it returns carries the page number it was given,
\* and none of its steps changes a Task, File or PageResult record or a
\* stored object.
C20_PageWorkerIsPure ==
    [][\A p \in Procs :
          /\ run'[p].pc = "pw_return"
             => /\ run'[p].requests = 1
                /\ run'[p].err = NULL
                   => /\ Len(run'[p].results) = 1
                      /\ run'[p].results[1].page_number = run'[p].page_number
          /\ (StepOf(p) /\ "pw_return" \in {run[p].pc, run'[p].pc})
             => UNCHANGED <<dbVars, envVars, result_blobs, chords>>]_vars

\* C20 witness: a page worker whose call failed is about to raise, on a task
\* store that is no longer as created.
C20_Witness ==
    \E p \in Procs, t \in TaskIds :
        /\ run[p].pc = "pw_return"
        /\ run[p].err # NULL
        /\ status[t] \in {COMPLETED, FAILED}

\* C21: handle_processing_error never raises to its caller, whatever fails
\* inside it (the rollback of the caller's session, the query for the task,
\* the commit of the Failed status): no run is ever left by an exception of
\* the handler.
C21_HandlerNeverRaises ==
    \A p \in Procs : run[p].pc # "he_raised"

\* The response carries no error: neither key has a value that is not empty.
CarriesNoError(r) ==
    r.error_code \in {NULL, ""} /\ r.error_message \in {NULL, ""}

\* C22: call_ai_service raises on a body that carries an error_code or an
\* error_message, whatever the status of the transport response, and returns
\* the empty text, without raising, for a body that carries no error and no
\* result entries.
C22_ErrorPayloadFailsEmptyResultSucceeds ==
    \A p \in Procs :
        (run[p].pc = "pw_return" /\ run[p].response.transport = "ok")
        => LET r == run[p].response IN
           /\ ~CarriesNoError(r) => run[p].err = "RuntimeError"
           /\ (CarriesNoError(r) /\ r.result = <<>>)
              => /\ run[p].err = NULL
                 /\ run[p].results = <<[page_number |-> run[p].page_number,
                                        text |-> <<>>]>>

\* C22 witness: the call raised on an error message that came with a success
\* status and with result entries.
C22_Witness ==
    \E p \in Procs :
        /\ run[p].pc = "pw_return"
        /\ run[p].response.transport = "ok"
        /\ run[p].response.ok_status
        /\ run[p].response.error_message = "boom"
        /\ run[p].response.result # <<>>
        /\ run[p].err = "RuntimeError"

\* The text of every line entry of a layout, in its order.
RECURSIVE LineTextsOf(_)
LineTextsOf(layout) ==
    IF layout = <<>> THEN <<>>
    ELSE IF Head(layout).type = "textline"
    THEN <<Head(layout).text>> \o LineTextsOf(Tail(layout))
    ELSE LineTextsOf(Tail(layout))

\* The text of every line entry of a response, in source order.
RECURSIVE AllLineTexts(_)
AllLineTexts(result) ==
    IF result = <<>> THEN <<>>
    ELSE LineTextsOf(Head(result).layout) \o AllLineTexts(Tail(result))

\* A well-formed response: a JSON body without error whose result entries are
\* dicts.
WellFormed(r) ==
    /\ r.transport = "ok"
    /\ CarriesNoError(r)
    /\ \A i \in 1..Len(r.result) : r.result[i].is_dict

IsNotEmpty(text) == text # <<>>

\* C23 as stated: for a well-formed response the text returned is the text
\* of every line entry of the response, in source order, joined by line
\* breaks (empty when there is none).
C23_TextIsEveryLineJoined ==
    \A p \in Procs :
        (run[p].pc = "pw_return" /\ WellFormed(run[p].response))
        => /\ run[p].err = NULL
           /\ run[p].results[1].text = Join(AllLineTexts(run[p].response.result))

\* C23: for a well-formed response the text returned is that of the line
\* entries of the first result entry whose text is not empty, in source
\* order, joined by line breaks (empty when there is none).
C23_TextIsFirstEntryLinesJoined ==
    \A p \in Procs :
        (run[p].pc = "pw_return" /\ WellFormed(run[p].response))
        => LET r == run[p].response
               lines == IF r.result = <<>> THEN <<>>
                        ELSE SelectSeq(LineTextsOf(r.result[1].layout), IsNotEmpty)
           IN /\ run[p].err = NULL
              /\ run[p].results[1].text = Join(lines)

\* C23 witness: two line entries came back as two lines, beside an entry that
\* is no line entry.
C23_Witness ==
    \E p \in Procs :
        /\ run[p].pc = "pw_return"
        /\ WellFormed(run[p].response)
        /\ Len(run[p].response.result) = 1
        /\ Len(run[p].response.result[1].layout) = MaxLines
        /\ run[p].results = <<[page_number |-> run[p].page_number,
                               text |-> <<"b">> \o LineBreak \o <<"a">>]>>

\* A process_file run for task id t starts in this step.
StartsProcessFile(t) ==
    /\ delivered' # delivered
    /\ \/ \E p \in Procs : run'[p].kind = "process_file" /\ run'[p].task = t
                           /\ run[p].pc = "idle"
       \/ pf_returned[t] # pf_returned'[t]

\* C24: a process_file run for a task id that has no Task row stops at once
\* and changes nothing: no row, no document, no result blob, no chord.
C24_NoTaskNoEffect ==
    [][\A t \in TaskIds :
          (status[t] = NoRow /\ StartsProcessFile(t))
          => /\ run' = run
             /\ UNCHANGED <<dbVars, file_row, doc, result_blobs, chords>>]_vars

\* C24 witness: a process_file run has returned for a task id without row.
C24_Witness ==
    \E t \in TaskIds :
        /\ status[t] = NoRow
        /\ task_not_found[t]
        /\ \A p \in Procs : run[p].pc = "idle"

\* C25: no process_file run of an accepted upload has found no Task row (so
\* none leaves the accepted task Pending for good).
C25_AcceptedUploadIsFound ==
    \A t \in TaskIds : upload[t].pc = "accepted" => ~task_not_found[t]

\* C26: an upload that fails after its document was stored ends with no File
\* row, no Task row and no document, and from then on nothing changes the
\* store.
C26_FailedUploadCompensated ==
    [][\A t \in TaskIds :
          /\ upload'[t].pc = "failed"
             => status'[t] = NoRow /\ ~file_row'[t] /\ doc'[t] = NoDoc
          /\ upload[t].pc = "failed"
             => UNCHANGED <<dbVars, file_row, doc, result_blobs, chords>>]_vars

\* C27: a Failed task has an error message, and not the empty one.
C27_FailedHasMessage ==
    \A t \in TaskIds : status[t] = FAILED => error_message[t] \notin {NULL, ""}

\* -------------------------------------------------------------------- spec
Next ==
    \/ \E p \in Procs : process_file(p)
    \/ \E p \in Procs : process_single_page_ocr(p)
    \/ \E p \in Procs : finalize_ocr_processing(p)
    \/ \E p \in Procs : handle_processing_error(p)

Spec == Init /\ [][Next]_vars

\* call_ai_service over every answer of the service.
NextAI == call_ai_service_alone

SpecAI == Init /\ [][NextAI]_vars

\* The upload request and the worker that gets its message.
InitUpload == Init /\ \A t \in TaskIds : upload[t] = NoUpload

NextUpload ==
    \/ \E t \in TaskIds : handle_file_upload(t)
    \/ \E p \in Procs : process_uploaded_file(p)
    \/ \E p \in Procs : handle_processing_error(p)

SpecUpload == InitUpload /\ [][NextUpload]_vars

====
